---- MODULE Spec2Model ----
(***************************************************************************)
(* The list-array family of rust/arrow/src/array/array_list.rs:            *)
(* GenericListArray<OffsetSize> (ListArray = i32, LargeListArray = i64)    *)
(* and FixedSizeListArray, built from an ArrayData snapshot and read with  *)
(* value_offset / value_length / value, and sliced through Array::slice;   *)
(* values / value_type, the memory accounting and the empty-list factories *)
(* build_empty_list_array and build_empty_fixed_size_list_array.           *)
(***************************************************************************)
EXTENDS Integers, Sequences, FiniteSets, TLC

VARIABLES
    data,       \* the ArrayData snapshot handed to the last From::from call
    outcome,    \* how that call ended: "none" before it, "Ok", or the panic kind
    arr,        \* the array that call returned (NoArray when it panicked)
    src,        \* the array `arr` was sliced from (NoArray when arr is not a slice)
    window,     \* the (start, length) that slice call was given
    last,       \* the last accessor call on arr and what it returned
    factory     \* the last empty-list factory call: its argument and its Err message

vars == <<data, outcome, arr, src, window, last, factory>>

(***************************************************************************)
(* Bounds of the model.                                                    *)
(***************************************************************************)
MaxLen == 2         \* logical length of a snapshot: 0..MaxLen
MaxOffset == 1      \* logical offset of a snapshot: 0..MaxOffset
MaxBuf == 3         \* entries of an offset buffer: 0..MaxBuf
MaxValues == 2      \* length of the values array of a variable list
MaxStride == 2      \* declared stride of a fixed-size list: -1..MaxStride, and I32_MAX
MaxFixedValues == 4 \* length of the values array of a fixed-size list

\* accessor index: 0..MaxIdx, the indices of the longest array, which are out
\* of range for a shorter one (the code checks no bound)
MaxIdx == MaxLen - 1

(***************************************************************************)
(* i32 arithmetic.  The model checker's integers are 32 bits wide, so the  *)
(* overflow cases are decided before any out-of-range value is computed.   *)
(***************************************************************************)
I32_MAX == 2147483647
I32_MIN == (-I32_MAX) - 1

NoOverflow(v) == [ovf |-> FALSE, val |-> v]
Overflow(v) == [ovf |-> TRUE, val |-> v]

\* a - b in i32: the exact difference, or the overflow flag with the wrapped value
Sub32(a, b) ==
    IF b > 0 /\ a < I32_MIN + b
    THEN Overflow(((a - I32_MIN) + (I32_MAX - b)) + 1)
    ELSE IF b < 0 /\ a > I32_MAX + b
    THEN Overflow(((a - I32_MAX) + (I32_MIN - b)) - 1)
    ELSE NoOverflow(a - b)

\* a + b in i32
Add32(a, b) ==
    IF b > 0 /\ a > I32_MAX - b
    THEN Overflow(((a - I32_MAX) + (b + I32_MIN)) - 1)
    ELSE IF b < 0 /\ a < I32_MIN - b
    THEN Overflow(((a - I32_MIN) + (b + I32_MAX)) + 1)
    ELSE NoOverflow(a + b)

(***************************************************************************)
(* OffsetSizeTrait: the two offset widths.                                 *)
(***************************************************************************)
OffsetSizes == {32, 64}

prefix(w) == IF w = 32 THEN "" ELSE "Large"

\* OffsetSize subtraction (value_length).  The 64-bit samples of the model
\* are far from the i64 limits, so their difference is exact.
\* the 64-bit difference taken as an unsigned one, floored at zero
OffsetSub_large_unsigned(w, a, b) ==
    IF w = 32 THEN Sub32(a, b) ELSE NoOverflow(IF a < b THEN 0 ELSE a - b)

OffsetSub(w, a, b) == IF w = 32 THEN Sub32(a, b) ELSE NoOverflow(a - b)

\* num::Zero::is_zero
is_zero(x) == x = 0

\* the sign test off by one: None for zero as well
to_usize_positive(x) == IF x <= 0 THEN [some |-> FALSE, val |-> 0] ELSE [some |-> TRUE, val |-> x]

\* ToPrimitive::to_usize: None for a negative value
to_usize(x) == IF x < 0 THEN [some |-> FALSE, val |-> 0] ELSE [some |-> TRUE, val |-> x]

(***************************************************************************)
(* ArrayData snapshots.                                                    *)
(***************************************************************************)
ListType(w) == [tag |-> IF w = 32 THEN "List" ELSE "LargeList", size |-> 0]
FixedSizeListType(n) == [tag |-> "FixedSizeList", size |-> n]
Int32Type == [tag |-> "Int32", size |-> 0]

NoData == [data_type |-> [tag |-> "none", size |-> 0]]
NoArray == [kind |-> "none"]
NoCall == [op |-> "none"]
NoWindow == [start |-> -1, length |-> -1]
\* format!(text, args): the template and the rendered arguments
format(text, args) == [text |-> text, args |-> args]
NoFactory == [item_type |-> [tag |-> "none", size |-> 0], message |-> format("", <<>>)]

\* all sequences over S of length 0..n
SeqsUpTo(S, n) == UNION {[1..k -> S] : k \in 0..n}

\* the values array of the tests: an Int32 array holding 0, 1, 2, ...
ValuesData(n) == [data_type |-> Int32Type, len |-> n, offset |-> 0,
                  elems |-> [k \in 1..n |-> k - 1]]

\* validity bitmap of the tests' shape: the set of absolute indices that are null
OddNull == {k \in 0..(MaxLen + MaxOffset + MaxIdx) : k % 2 = 1}

\* sample offsets of one width: around the values array, and the i32 extreme
OffVals(w) == (-1..MaxValues) \cup (IF w = 32 THEN {I32_MAX} ELSE {})

\* what a read past the end of the offset buffer may find
Junk(w) == {-1, 0}

OffsetBuffers(w, n) ==
    {[aligned |-> al, ints |-> s] : al \in {TRUE}, s \in SeqsUpTo(OffVals(w), n)}

\* snapshots with one aligned buffer and one child: every offset content
WellShapedListData(w) ==
    {[data_type |-> ListType(w), len |-> n, offset |-> lo, nulls |-> OddNull,
      buffers |-> <<b>>, child_data |-> <<ValuesData(vl)>>] :
        n \in 0..MaxLen, lo \in 0..MaxOffset,
        b \in OffsetBuffers(w, MaxBuf), vl \in {MaxValues}}

\* snapshots of every shape: 0..2 buffers, 0..2 children, aligned or not
AnyShapeBuffers(w) ==
    LET bs == {[aligned |-> al, ints |-> s] :
                   al \in BOOLEAN, s \in SeqsUpTo(OffVals(w), 1)}
    IN  {<<>>} \cup {<<b>> : b \in bs} \cup {<<b, b>> : b \in bs}

AnyShapeChildren ==
    {<<>>, <<ValuesData(MaxValues)>>, <<ValuesData(MaxValues), ValuesData(0)>>}

AnyShapeListData(w) ==
    {[data_type |-> t, len |-> n, offset |-> lo, nulls |-> OddNull,
      buffers |-> bs, child_data |-> cs] :
        t \in {ListType(w), Int32Type}, n \in {0, MaxLen}, lo \in {0, MaxOffset},
        bs \in AnyShapeBuffers(w), cs \in AnyShapeChildren}

ListData(w) == WellShapedListData(w) \cup AnyShapeListData(w)

\* snapshots for the fixed-size list: every type tag, stride and shape
Strides == (-1..MaxStride) \cup {I32_MAX}

FixedTypes == {FixedSizeListType(s) : s \in Strides} \cup {ListType(32), Int32Type}

FixedChildren ==
    {<<>>} \cup {<<ValuesData(vl)>> : vl \in 0..MaxFixedValues}
           \cup {<<ValuesData(vl), ValuesData(0)>> : vl \in 0..MaxFixedValues}

FixedData ==
    {[data_type |-> t, len |-> n, offset |-> lo, nulls |-> OddNull,
      buffers |-> bs, child_data |-> cs] :
        t \in FixedTypes, n \in 0..MaxLen, lo \in 0..MaxOffset,
        bs \in {<<>>, <<[aligned |-> TRUE, ints |-> <<0>>]>>}, cs \in FixedChildren}

(***************************************************************************)
(* Collaborators outside array_list.rs.                                    *)
(***************************************************************************)
\* make_array(child_data[0]): the values array wrapping the child snapshot
make_array_values(child) == [kind |-> child.data_type.tag, data |-> child]

\* RawPtrBox::<OffsetSize>::new: panics "memory is not aligned"
RawPtrBox_new(buffer) == IF buffer.aligned THEN "Ok" ELSE "Misaligned"

\* ArrayData::slice: same buffers and children, adjusted offset and length
slice_data(d, start, length) ==
    [d EXCEPT !.offset = d.offset + start, !.len = length]

\* Array::is_valid on the snapshot's validity bitmap
is_valid(a, i) == (a.data.offset + i) \notin a.data.nulls

(***************************************************************************)
(* impl From<ArrayDataRef> for GenericListArray<OffsetSize>                *)
(***************************************************************************)
Outcome(ctor, w, result) == [ctor |-> ctor, width |-> w, result |-> result]

\* the zero check made on the entry at the logical offset, not on entry 0
GenericListArray_check_at_logical_offset(w, d, junk) ==
    IF Len(d.buffers) # 1 THEN "ShapeMismatch"
    ELSE IF Len(d.child_data) # 1 THEN "ShapeMismatch"
    ELSE IF RawPtrBox_new(d.buffers[1]) # "Ok" THEN "Misaligned"
    ELSE LET ints == d.buffers[1].ints
             first == IF Len(ints) > d.offset THEN ints[d.offset + 1] ELSE junk
         IN  IF is_zero(first) THEN "Ok" ELSE "OffsetConventionViolation"

\* the buffer count checked as "at least one"
GenericListArray_check_some_buffer(w, d, junk) ==
    IF Len(d.buffers) < 1 THEN "ShapeMismatch"
    ELSE IF Len(d.child_data) # 1 THEN "ShapeMismatch"
    ELSE IF RawPtrBox_new(d.buffers[1]) # "Ok" THEN "Misaligned"
    ELSE LET ints == d.buffers[1].ints
             first == IF Len(ints) > 0 THEN ints[1] ELSE junk
         IN  IF is_zero(first) THEN "Ok" ELSE "OffsetConventionViolation"

\* a constructor that also rejects decreasing offsets
GenericListArray_check_monotonic(w, d, junk) ==
    IF Len(d.buffers) # 1 THEN "ShapeMismatch"
    ELSE IF Len(d.child_data) # 1 THEN "ShapeMismatch"
    ELSE IF RawPtrBox_new(d.buffers[1]) # "Ok" THEN "Misaligned"
    ELSE LET ints == d.buffers[1].ints
             first == IF Len(ints) > 0 THEN ints[1] ELSE junk
         IN  IF is_zero(first) /\ \A k \in 1..(Len(ints) - 1) : ints[k] <= ints[k + 1]
             THEN "Ok" ELSE "OffsetConventionViolation"

\* the zero check made before the offsets pointer is boxed
GenericListArray_check_zero_first(w, d, junk) ==
    IF Len(d.buffers) # 1 THEN "ShapeMismatch"
    ELSE IF Len(d.child_data) # 1 THEN "ShapeMismatch"
    ELSE LET ints == d.buffers[1].ints
             first == IF Len(ints) > 0 THEN ints[1] ELSE junk
         IN  IF ~is_zero(first) THEN "OffsetConventionViolation"
             ELSE IF RawPtrBox_new(d.buffers[1]) # "Ok" THEN "Misaligned"
             ELSE "Ok"

\* the outcome of the checks, in the order the code makes them; `junk` is
\* what the read of entry 0 finds when the buffer holds no entry at all
GenericListArray_check(w, d, junk) ==
    IF Len(d.buffers) # 1 THEN "ShapeMismatch"
    ELSE IF Len(d.child_data) # 1 THEN "ShapeMismatch"
    ELSE IF RawPtrBox_new(d.buffers[1]) # "Ok" THEN "Misaligned"
    ELSE LET ints == d.buffers[1].ints
             first == IF Len(ints) > 0 THEN ints[1] ELSE junk
         IN  IF is_zero(first) THEN "Ok" ELSE "OffsetConventionViolation"

\* the reads of entry 0 that the build can produce
FirstJunk(w, d) ==
    IF Len(d.buffers) >= 1 /\ Len(d.buffers[1].ints) = 0 THEN Junk(w) ELSE {0}

\* the offsets of the logical window copied out of the buffer
GenericListArray_new_copying(w, d) ==
    LET ints == d.buffers[1].ints
        skip == IF d.offset < Len(ints) THEN d.offset ELSE Len(ints)
    IN  [kind |-> "List", width |-> w, data |-> d,
         values |-> make_array_values(d.child_data[1]),
         value_offsets |-> [k \in 1..(Len(ints) - skip) |-> ints[k + skip]], length |-> 0]

GenericListArray_new(w, d) ==
    [kind |-> "List", width |-> w, data |-> d,
     values |-> make_array_values(d.child_data[1]),
     value_offsets |-> d.buffers[1].ints, length |-> 0]

GenericListArray_from ==
    /\ outcome.result = "none"
    /\ \E w \in OffsetSizes : \E d \in ListData(w) : \E junk \in FirstJunk(w, d) :
         LET r == GenericListArray_check(w, d, junk)
         IN  /\ outcome' = Outcome("GenericListArray", w, r)
             /\ arr' = IF r = "Ok" THEN GenericListArray_new(w, d) ELSE NoArray
             /\ data' = d
    /\ UNCHANGED <<src, window, last, factory>>

(***************************************************************************)
(* impl From<ArrayDataRef> for FixedSizeListArray                          *)
(***************************************************************************)
\* the stride check made on the list's own length, not on the values' length
FixedSizeListArray_check_own_len(d) ==
    IF Len(d.buffers) # 0 THEN "ShapeMismatch"
    ELSE IF Len(d.child_data) # 1 THEN "ShapeMismatch"
    ELSE IF d.data_type.tag = "FixedSizeList"
         THEN IF d.data_type.size > 0 /\ d.len % d.data_type.size # 0
              THEN "StrideMismatch"
              ELSE "Ok"
         ELSE "TypeTagMismatch"

\* the buffer count not checked
FixedSizeListArray_check_no_buffer_check(d) ==
    IF Len(d.child_data) # 1 THEN "ShapeMismatch"
    ELSE IF d.data_type.tag = "FixedSizeList"
         THEN IF d.data_type.size > 0 /\ d.child_data[1].len % d.data_type.size # 0
              THEN "StrideMismatch"
              ELSE "Ok"
         ELSE "TypeTagMismatch"

\* every type tag accepted
FixedSizeListArray_check_any_type(d) ==
    IF Len(d.buffers) # 0 THEN "ShapeMismatch"
    ELSE IF Len(d.child_data) # 1 THEN "ShapeMismatch"
    ELSE IF d.data_type.size > 0 /\ d.child_data[1].len % d.data_type.size # 0
         THEN "StrideMismatch"
         ELSE "Ok"

\* the stride never compared with the values' length
FixedSizeListArray_check_no_stride_check(d) ==
    IF Len(d.buffers) # 0 THEN "ShapeMismatch"
    ELSE IF Len(d.child_data) # 1 THEN "ShapeMismatch"
    ELSE IF d.data_type.tag = "FixedSizeList" THEN "Ok"
    ELSE "TypeTagMismatch"

FixedSizeListArray_check(d) ==
    IF Len(d.buffers) # 0 THEN "ShapeMismatch"
    ELSE IF Len(d.child_data) # 1 THEN "ShapeMismatch"
    ELSE IF d.data_type.tag = "FixedSizeList"
         THEN IF d.data_type.size > 0 /\ d.child_data[1].len % d.data_type.size # 0
              THEN "StrideMismatch"
              ELSE "Ok"
         ELSE "TypeTagMismatch"

FixedSizeListArray_new(d) ==
    [kind |-> "FixedSizeList", width |-> 32, data |-> d,
     values |-> make_array_values(d.child_data[1]),
     value_offsets |-> <<>>, length |-> d.data_type.size]

FixedSizeListArray_from ==
    /\ outcome.result = "none"
    /\ \E d \in FixedData :
         LET r == FixedSizeListArray_check(d)
         IN  /\ outcome' = Outcome("FixedSizeListArray", 32, r)
             /\ arr' = IF r = "Ok" THEN FixedSizeListArray_new(d) ELSE NoArray
             /\ data' = d
    /\ UNCHANGED <<src, window, last, factory>>

(***************************************************************************)
(* The empty-list factories: build_empty_list_array<OffsetSize> and        *)
(* build_empty_fixed_size_list_array.                                      *)
(***************************************************************************)
\* DataType descriptors of the element types: without parameter, with a
\* DateUnit / TimeUnit / IntervalUnit, and Timestamp(TimeUnit, timezone)
DataType(tag) == [tag |-> tag, size |-> 0]
DataTypeUnit(tag, unit) == [tag |-> tag, size |-> 0, unit |-> unit]
Timestamp(unit, tz) == [tag |-> "Timestamp", size |-> 0, unit |-> unit, tz |-> tz]

DateUnits == {"Day", "Millisecond"}
TimeUnits == {"Second", "Millisecond", "Microsecond", "Nanosecond"}
IntervalUnits == {"YearMonth", "DayTime"}
Timezones == {"None", "Some(UTC)"}

\* the element types a factory is asked for
ItemTypes ==
    {DataType(tag) : tag \in {"UInt8", "UInt16", "UInt32", "UInt64", "Int8", "Int16",
                              "Int32", "Int64", "Float16", "Float32", "Float64",
                              "Boolean", "Utf8", "LargeUtf8", "Binary", "LargeBinary",
                              "List", "Struct"}}
    \cup {DataTypeUnit(tag, u) : tag \in {"Date32", "Date64"}, u \in DateUnits}
    \cup {DataTypeUnit(tag, u) : tag \in {"Time32", "Time64", "Duration"}, u \in TimeUnits}
    \cup {DataTypeUnit("Interval", u) : u \in IntervalUnits}
    \cup {Timestamp(u, tz) : u \in TimeUnits, tz \in Timezones}

\* {:?} of a DataType: the variant's name and its parameters
fmt_debug(t) ==
    IF t.tag = "Timestamp" THEN <<t.tag, t.unit, t.tz>>
    ELSE IF t.tag \in {"Date32", "Date64", "Time32", "Time64", "Duration", "Interval"}
    THEN <<t.tag, t.unit>>
    ELSE <<t.tag>>

\* the DATA_TYPE of the leaf type a values builder is instantiated for
builder_data_type(b) ==
    CASE b = "UInt8Type" -> DataType("UInt8")
      [] b = "UInt16Type" -> DataType("UInt16")
      [] b = "UInt32Type" -> DataType("UInt32")
      [] b = "UInt64Type" -> DataType("UInt64")
      [] b = "Int8Type" -> DataType("Int8")
      [] b = "Int16Type" -> DataType("Int16")
      [] b = "Int32Type" -> DataType("Int32")
      [] b = "Int64Type" -> DataType("Int64")
      [] b = "Float32Type" -> DataType("Float32")
      [] b = "Float64Type" -> DataType("Float64")
      [] b = "BooleanBuilder" -> DataType("Boolean")
      [] b = "Date32Type" -> DataTypeUnit("Date32", "Day")
      [] b = "Date64Type" -> DataTypeUnit("Date64", "Millisecond")
      [] b = "Time32SecondType" -> DataTypeUnit("Time32", "Second")
      [] b = "Time32MillisecondType" -> DataTypeUnit("Time32", "Millisecond")
      [] b = "Time64MicrosecondType" -> DataTypeUnit("Time64", "Microsecond")
      [] b = "Time64NanosecondType" -> DataTypeUnit("Time64", "Nanosecond")
      [] b = "DurationSecondType" -> DataTypeUnit("Duration", "Second")
      [] b = "DurationMillisecondType" -> DataTypeUnit("Duration", "Millisecond")
      [] b = "DurationMicrosecondType" -> DataTypeUnit("Duration", "Microsecond")
      [] b = "DurationNanosecondType" -> DataTypeUnit("Duration", "Nanosecond")
      [] b = "TimestampSecondType" -> Timestamp("Second", "None")
      [] b = "TimestampMillisecondType" -> Timestamp("Millisecond", "None")
      [] b = "TimestampMicrosecondType" -> Timestamp("Microsecond", "None")
      [] b = "TimestampNanosecondType" -> Timestamp("Nanosecond", "None")
      [] b = "StringBuilder" -> DataType("Utf8")
      [] b = "BinaryBuilder" -> DataType("Binary")

\* GenericListBuilder::<OffsetSize, _>::new(values_builder).finish() on a
\* builder nothing was appended to
GenericListBuilder_finish(w, b) ==
    GenericListArray_new(w,
        [data_type |-> ListType(w), len |-> 0, offset |-> 0, nulls |-> {},
         buffers |-> <<[aligned |-> TRUE, ints |-> <<0>>]>>,
         child_data |-> <<[data_type |-> builder_data_type(b), len |-> 0, offset |-> 0,
                           elems |-> <<>>]>>])

\* FixedSizeListBuilder::new(values_builder, n).finish()
FixedSizeListBuilder_finish(b, n) ==
    FixedSizeListArray_new(
        [data_type |-> FixedSizeListType(n), len |-> 0, offset |-> 0, nulls |-> {},
         buffers |-> <<>>,
         child_data |-> <<[data_type |-> builder_data_type(b), len |-> 0, offset |-> 0,
                           elems |-> <<>>]>>])

FactoryOk(a) == [result |-> "Ok", array |-> a, message |-> format("", <<>>)]
NotYetImplemented(msg) == [result |-> "NotYetImplemented", array |-> NoArray, message |-> msg]

\* the match of build_empty_list_array: the values builder of the arm taken
build_empty_list_array_builder(t) ==
    CASE t.tag = "UInt8" -> "UInt8Type"
      [] t.tag = "UInt16" -> "UInt16Type"
      [] t.tag = "UInt32" -> "UInt32Type"
      [] t.tag = "UInt64" -> "UInt64Type"
      [] t.tag = "Int8" -> "Int8Type"
      [] t.tag = "Int16" -> "Int16Type"
      [] t.tag = "Int32" -> "Int32Type"
      [] t.tag = "Int64" -> "Int64Type"
      [] t.tag = "Float32" -> "Float32Type"
      [] t.tag = "Float64" -> "Float64Type"
      [] t.tag = "Boolean" -> "BooleanBuilder"
      [] t.tag = "Date32" -> "Date32Type"
      [] t.tag = "Date64" -> "Date64Type"
      [] t.tag = "Time32" /\ t.unit = "Second" -> "Time32SecondType"
      [] t.tag = "Time32" /\ t.unit = "Millisecond" -> "Time32MillisecondType"
      [] t.tag = "Time64" /\ t.unit = "Microsecond" -> "Time64MicrosecondType"
      [] t.tag = "Time64" /\ t.unit = "Nanosecond" -> "Time64NanosecondType"
      [] t.tag = "Duration" /\ t.unit = "Second" -> "DurationSecondType"
      [] t.tag = "Duration" /\ t.unit = "Millisecond" -> "DurationMillisecondType"
      [] t.tag = "Duration" /\ t.unit = "Microsecond" -> "DurationMicrosecondType"
      [] t.tag = "Duration" /\ t.unit = "Nanosecond" -> "DurationNanosecondType"
      [] t.tag = "Timestamp" /\ t.unit = "Second" -> "TimestampSecondType"
      [] t.tag = "Timestamp" /\ t.unit = "Millisecond" -> "TimestampMillisecondType"
      [] t.tag = "Timestamp" /\ t.unit = "Microsecond" -> "TimestampMicrosecondType"
      [] t.tag = "Timestamp" /\ t.unit = "Nanosecond" -> "TimestampNanosecondType"
      [] t.tag = "Utf8" -> "StringBuilder"
      [] t.tag = "Binary" -> "BinaryBuilder"
      [] OTHER -> "none"

\* the Err message without the rejected type
build_empty_list_array_no_type(w, t) ==
    LET b == build_empty_list_array_builder(t)
    IN  IF b # "none" THEN FactoryOk(GenericListBuilder_finish(w, b))
        ELSE NotYetImplemented(format("GenericListBuilder of type List({:?}) is not supported",
                                      <<>>))

build_empty_list_array(w, t) ==
    LET b == build_empty_list_array_builder(t)
    IN  IF b # "none" THEN FactoryOk(GenericListBuilder_finish(w, b))
        ELSE NotYetImplemented(format("GenericListBuilder of type List({:?}) is not supported",
                                      <<fmt_debug(t)>>))

\* the match of build_empty_fixed_size_list_array
build_empty_fixed_size_list_array_builder(t) ==
    CASE t.tag = "UInt8" -> "UInt8Type"
      [] t.tag = "UInt16" -> "UInt16Type"
      [] t.tag = "UInt32" -> "UInt32Type"
      [] t.tag = "UInt64" -> "UInt64Type"
      [] t.tag = "Int8" -> "Int8Type"
      [] t.tag = "Int16" -> "Int16Type"
      [] t.tag = "Int32" -> "Int32Type"
      [] t.tag = "Int64" -> "Int64Type"
      [] t.tag = "Float32" -> "Float32Type"
      [] t.tag = "Float64" -> "Float64Type"
      [] t.tag = "Boolean" -> "BooleanBuilder"
      [] t.tag = "Date32" -> "Date32Type"
      [] t.tag = "Date64" -> "Date64Type"
      [] t.tag = "Time32" /\ t.unit = "Second" -> "Time32SecondType"
      [] t.tag = "Time32" /\ t.unit = "Millisecond" -> "Time32MillisecondType"
      [] t.tag = "Time64" /\ t.unit = "Microsecond" -> "Time64MicrosecondType"
      [] t.tag = "Time64" /\ t.unit = "Nanosecond" -> "Time64NanosecondType"
      [] t.tag = "Duration" /\ t.unit = "Second" -> "DurationSecondType"
      [] t.tag = "Duration" /\ t.unit = "Millisecond" -> "DurationMillisecondType"
      [] t.tag = "Duration" /\ t.unit = "Microsecond" -> "DurationMicrosecondType"
      [] t.tag = "Duration" /\ t.unit = "Nanosecond" -> "DurationNanosecondType"
      [] t.tag = "Timestamp" /\ t.unit = "Second" -> "TimestampSecondType"
      [] t.tag = "Timestamp" /\ t.unit = "Millisecond" -> "TimestampMillisecondType"
      [] t.tag = "Timestamp" /\ t.unit = "Microsecond" -> "TimestampMicrosecondType"
      [] t.tag = "Timestamp" /\ t.unit = "Nanosecond" -> "TimestampNanosecondType"
      [] t.tag = "Utf8" -> "StringBuilder"
      [] t.tag = "Binary" -> "BinaryBuilder"
      [] OTHER -> "none"

\* the Binary arm missing from the fixed-size match
build_empty_fixed_size_list_array_no_binary(t) ==
    LET b == build_empty_fixed_size_list_array_builder(t)
    IN  IF b # "none" /\ b # "BinaryBuilder"
        THEN FactoryOk(FixedSizeListBuilder_finish(b, 0))
        ELSE NotYetImplemented(
                 format("FixedSizeListBuilder of type FixedSizeList({:?}) is not supported",
                        <<fmt_debug(t)>>))

build_empty_fixed_size_list_array(t) ==
    LET b == build_empty_fixed_size_list_array_builder(t)
    IN  IF b # "none" THEN FactoryOk(FixedSizeListBuilder_finish(b, 0))
        ELSE NotYetImplemented(
                 format("FixedSizeListBuilder of type FixedSizeList({:?}) is not supported",
                        <<fmt_debug(t)>>))

BuildEmptyListArray ==
    /\ outcome.result = "none"
    /\ \E w \in OffsetSizes : \E t \in ItemTypes :
         LET r == build_empty_list_array(w, t)
         IN  /\ outcome' = Outcome("build_empty_list_array", w, r.result)
             /\ arr' = r.array
             /\ data' = IF r.result = "Ok" THEN r.array.data ELSE NoData
             /\ factory' = [item_type |-> t, message |-> r.message]
    /\ UNCHANGED <<src, window, last>>

BuildEmptyFixedSizeListArray ==
    /\ outcome.result = "none"
    /\ \E t \in ItemTypes :
         LET r == build_empty_fixed_size_list_array(t)
         IN  /\ outcome' = Outcome("build_empty_fixed_size_list_array", 32, r.result)
             /\ arr' = r.array
             /\ data' = IF r.result = "Ok" THEN r.array.data ELSE NoData
             /\ factory' = [item_type |-> t, message |-> r.message]
    /\ UNCHANGED <<src, window, last>>

(***************************************************************************)
(* Accessor results.                                                       *)
(***************************************************************************)
\* what an accessor call returned: out is "ok", "panic" (an unwrap of None or
\* a checked arithmetic overflow) or "undefined" (a span outside the values)
Returned(op, i, v) == [op |-> op, i |-> i, out |-> "ok", val |-> v, elems |-> <<>>]
Panicked(op, i) == [op |-> op, i |-> i, out |-> "panic", val |-> 0, elems |-> <<>>]
View(op, i, out, off, es) == [op |-> op, i |-> i, out |-> out, val |-> off, elems |-> es]

\* a call that returned an array or a type descriptor
ReturnedRef(op, x) == [op |-> op, i |-> 0, out |-> "ok", val |-> 0, elems |-> <<>>, ref |-> x]

\* Array::slice on the values array: the elements at [off, off + length)
values_slice(values, op, i, off, length) ==
    IF length <= values.data.len /\ off <= values.data.len - length
    THEN View(op, i, "ok", off, SubSeq(values.data.elems, off + 1, off + length))
    ELSE View(op, i, "undefined", off, <<>>)

(***************************************************************************)
(* GenericListArray accessors                                              *)
(***************************************************************************)
\* *self.value_offsets.as_ptr().add(i): entry i of the buffer, or whatever
\* lies behind the buffer when i is past its end
value_offset_at(a, i, junk) ==
    IF i < Len(a.value_offsets) THEN a.value_offsets[i + 1] ELSE junk

\* the logical offset left out
value_offset_no_offset(a, i, junk) == value_offset_at(a, i, junk)

value_offset(a, i, junk) == value_offset_at(a, a.data.offset + i, junk)

\* the logical offset left out
value_length_no_offset(a, i, junk1, junk2) ==
    OffsetSub(a.width, value_offset_at(a, i + 1, junk2), value_offset_at(a, i, junk1))

value_length(a, i, junk1, junk2) ==
    LET j == i + a.data.offset
    IN  OffsetSub(a.width, value_offset_at(a, j + 1, junk2), value_offset_at(a, j, junk1))

\* the end offset passed where the length belongs
value_end_for_length(a, i, junk1, junk2, checked) ==
    LET off == to_usize(value_offset(a, i, junk1))
        vl == value_length(a, i, junk1, junk2)
        length == to_usize(value_offset(a, i + 1, junk2))
    IN  IF ~off.some THEN Panicked("value", i)
        ELSE IF vl.ovf /\ checked THEN Panicked("value", i)
        ELSE IF ~length.some THEN Panicked("value", i)
        ELSE values_slice(a.values, "value", i, off.val, length.val)

\* value(i): both to_usize().unwrap() calls, then the slice of the values;
\* `checked` is the build's overflow-checks setting
value(a, i, junk1, junk2, checked) ==
    LET off == to_usize(value_offset(a, i, junk1))
        vl == value_length(a, i, junk1, junk2)
        length == to_usize(vl.val)
    IN  IF ~off.some THEN Panicked("value", i)
        ELSE IF vl.ovf /\ checked THEN Panicked("value", i)
        ELSE IF ~length.some THEN Panicked("value", i)
        ELSE values_slice(a.values, "value", i, off.val, length.val)

IsList(a) == a.kind = "List"

\* the reads of entry j that the build can produce: the entry itself when the
\* buffer holds it (the junk is then not read), anything otherwise
JunkAt(a, j) == IF j < Len(a.value_offsets) THEN {0} ELSE Junk(a.width)

\* the overflow-checks settings that make a difference to a result
Builds(ovf) == IF ovf THEN BOOLEAN ELSE {FALSE}

ValueOffset ==
    /\ IsList(arr)
    /\ last = NoCall
    /\ \E i \in 0..MaxIdx :
       \E junk \in JunkAt(arr, arr.data.offset + i) :
         last' = Returned("value_offset", i, value_offset(arr, i, junk))
    /\ UNCHANGED <<data, outcome, arr, src, window, factory>>

ValueLength ==
    /\ IsList(arr)
    /\ last = NoCall
    /\ \E i \in 0..MaxIdx :
       \E junk1 \in JunkAt(arr, arr.data.offset + i),
          junk2 \in JunkAt(arr, arr.data.offset + i + 1) :
         LET vl == value_length(arr, i, junk1, junk2)
         IN  \E checked \in Builds(vl.ovf) :
               last' = IF vl.ovf /\ checked
                       THEN Panicked("value_length", i)
                       ELSE Returned("value_length", i, vl.val)
    /\ UNCHANGED <<data, outcome, arr, src, window, factory>>

Value ==
    /\ IsList(arr)
    /\ last = NoCall
    /\ \E i \in 0..MaxIdx :
       \E junk1 \in JunkAt(arr, arr.data.offset + i),
          junk2 \in JunkAt(arr, arr.data.offset + i + 1) :
         \E checked \in Builds(value_length(arr, i, junk1, junk2).ovf) :
           last' = value(arr, i, junk1, junk2, checked)
    /\ UNCHANGED <<data, outcome, arr, src, window, factory>>

(***************************************************************************)
(* FixedSizeListArray accessors                                            *)
(***************************************************************************)
\* n * s in i32 for a small n >= 0, by repeated i32 addition
RECURSIVE Mul32(_, _)
Mul32(n, s) ==
    IF n = 0 THEN NoOverflow(0)
    ELSE LET p == Mul32(n - 1, s)
             q == Add32(p.val, s)
         IN  [ovf |-> p.ovf \/ q.ovf, val |-> q.val]

\* the index and the stride added where they are multiplied
fixed_value_offset_at_sum(a, i) == Add32(i, a.length)

\* i as i32 * self.length
fixed_value_offset_at(a, i) == Mul32(i, a.length)

\* the logical offset left out
fixed_value_offset_no_offset(a, i) == fixed_value_offset_at(a, i)

fixed_value_offset(a, i) == fixed_value_offset_at(a, a.data.offset + i)

fixed_value_length(a) == a.length

\* x as usize: a negative i32 becomes a value above every array length
as_usize(x) == IF x < 0 THEN [huge |-> TRUE, val |-> 0] ELSE [huge |-> FALSE, val |-> x]

fixed_value(a, i, checked) ==
    LET vo == fixed_value_offset(a, i)
        off == as_usize(vo.val)
        length == as_usize(fixed_value_length(a))
    IN  IF vo.ovf /\ checked THEN Panicked("value", i)
        ELSE IF off.huge \/ length.huge THEN View("value", i, "undefined", vo.val, <<>>)
        ELSE values_slice(a.values, "value", i, off.val, length.val)

IsFixed(a) == a.kind = "FixedSizeList"

FixedValueOffset ==
    /\ IsFixed(arr)
    /\ last = NoCall
    /\ \E i \in 0..MaxIdx :
       LET vo == fixed_value_offset(arr, i)
       IN  \E checked \in Builds(vo.ovf) :
             last' = IF vo.ovf /\ checked
                     THEN Panicked("value_offset", i)
                     ELSE Returned("value_offset", i, vo.val)
    /\ UNCHANGED <<data, outcome, arr, src, window, factory>>

FixedValueLength ==
    /\ IsFixed(arr)
    /\ last = NoCall
    /\ last' = Returned("value_length", 0, fixed_value_length(arr))
    /\ UNCHANGED <<data, outcome, arr, src, window, factory>>

FixedValue ==
    /\ IsFixed(arr)
    /\ last = NoCall
    /\ \E i \in 0..MaxIdx :
       \E checked \in Builds(fixed_value_offset(arr, i).ovf) :
         last' = fixed_value(arr, i, checked)
    /\ UNCHANGED <<data, outcome, arr, src, window, factory>>

(***************************************************************************)
(* values() and value_type() of both list kinds                            *)
(***************************************************************************)
\* the values narrowed to the array's logical window
list_values_of_window(a) ==
    [a.values EXCEPT !.data = slice_data(a.values.data, a.data.offset, a.data.len)]

\* self.values.clone()
list_values(a) == a.values

\* self.values.data_ref().data_type().clone()
list_value_type(a) == a.values.data.data_type

fixed_values(a) == a.values

fixed_value_type(a) == a.values.data.data_type

Values ==
    /\ arr # NoArray
    /\ last = NoCall
    /\ last' = ReturnedRef("values", IF IsList(arr) THEN list_values(arr) ELSE fixed_values(arr))
    /\ UNCHANGED <<data, outcome, arr, src, window, factory>>

ValueType ==
    /\ arr # NoArray
    /\ last = NoCall
    /\ last' = ReturnedRef("value_type",
                           IF IsList(arr) THEN list_value_type(arr) ELSE fixed_value_type(arr))
    /\ UNCHANGED <<data, outcome, arr, src, window, factory>>

(***************************************************************************)
(* Memory accounting (impl Array for GenericListArray / FixedSizeListArray)*)
(***************************************************************************)
\* ArrayData::get_buffer_memory_size: the bytes of the snapshot's own raw
\* buffers (for a variable list its offsets buffer, for a fixed-size list none)
data_get_buffer_memory_size(d, w) ==
    IF Len(d.buffers) = 0 THEN 0 ELSE (w \div 8) * Len(d.buffers[1].ints)

\* mem::size_of::<ArrayData>()
size_of_ArrayData == 136

\* ArrayData::get_array_memory_size: the buffers and the snapshot's footprint
data_get_array_memory_size(d, w) == data_get_buffer_memory_size(d, w) + size_of_ArrayData

\* the values array's own accounting: an Int32 array of 4-byte elements
values_get_buffer_memory_size(v) == 4 * v.data.len

size_of_PrimitiveArray == 24

values_get_array_memory_size(v) ==
    values_get_buffer_memory_size(v) + size_of_ArrayData + size_of_PrimitiveArray

\* mem::size_of_val(self): data, values and value_offsets / length
size_of_val(a) == 32

\* the values array counted as the fixed-size list counts it
list_get_buffer_memory_size_with_values(a) ==
    data_get_buffer_memory_size(a.data, a.width) + values_get_buffer_memory_size(a.values)

list_get_buffer_memory_size(a) == data_get_buffer_memory_size(a.data, a.width)

list_get_array_memory_size(a) == data_get_array_memory_size(a.data, a.width) + size_of_val(a)

fixed_get_buffer_memory_size(a) ==
    data_get_buffer_memory_size(a.data, a.width) + values_get_buffer_memory_size(a.values)

fixed_get_array_memory_size(a) ==
    data_get_array_memory_size(a.data, a.width) + values_get_array_memory_size(a.values)
        + size_of_val(a)

GetBufferMemorySize ==
    /\ arr # NoArray
    /\ last = NoCall
    /\ last' = Returned("get_buffer_memory_size", 0,
                        IF IsList(arr) THEN list_get_buffer_memory_size(arr)
                        ELSE fixed_get_buffer_memory_size(arr))
    /\ UNCHANGED <<data, outcome, arr, src, window, factory>>

GetArrayMemorySize ==
    /\ arr # NoArray
    /\ last = NoCall
    /\ last' = Returned("get_array_memory_size", 0,
                        IF IsList(arr) THEN list_get_array_memory_size(arr)
                        ELSE fixed_get_array_memory_size(arr))
    /\ UNCHANGED <<data, outcome, arr, src, window, factory>>

(***************************************************************************)
(* Array::slice: make_array(data.slice(start, length)), which runs the     *)
(* From::from of the array's own kind on the sliced snapshot.              *)
(***************************************************************************)
Slice ==
    /\ arr # NoArray
    /\ src = NoArray
    /\ last = NoCall
    /\ \E start \in 0..arr.data.len : \E length \in 0..(arr.data.len - start) :
       LET d == slice_data(arr.data, start, length)
       IN  /\ data' = d
           /\ IF IsList(arr)
              THEN \E junk \in FirstJunk(arr.width, d) :
                     LET r == GenericListArray_check(arr.width, d, junk)
                     IN  /\ outcome' = Outcome("GenericListArray", arr.width, r)
                         /\ arr' = IF r = "Ok"
                                   THEN GenericListArray_new(arr.width, d)
                                   ELSE NoArray
              ELSE LET r == FixedSizeListArray_check(d)
                   IN  /\ outcome' = Outcome("FixedSizeListArray", 32, r)
                       /\ arr' = IF r = "Ok" THEN FixedSizeListArray_new(d) ELSE NoArray
           /\ window' = [start |-> start, length |-> length]
    /\ src' = arr
    /\ last' = NoCall
    /\ UNCHANGED factory

(***************************************************************************)
(* The specification.                                                      *)
(***************************************************************************)
Init ==
    /\ data = NoData
    /\ outcome = Outcome("none", 0, "none")
    /\ arr = NoArray
    /\ src = NoArray
    /\ window = NoWindow
    /\ last = NoCall
    /\ factory = NoFactory

Next ==
    \/ GenericListArray_from
    \/ FixedSizeListArray_from
    \/ BuildEmptyListArray
    \/ BuildEmptyFixedSizeListArray
    \/ ValueOffset
    \/ ValueLength
    \/ Value
    \/ FixedValueOffset
    \/ FixedValueLength
    \/ FixedValue
    \/ Values
    \/ ValueType
    \/ GetBufferMemorySize
    \/ GetArrayMemorySize
    \/ Slice

Spec == Init /\ [][Next]_vars

(***************************************************************************)
(* Notions the properties share.                                           *)
(***************************************************************************)
\* entry k (absolute, from 0) of the array's offset buffer is an entry the
\* buffer holds
InBuffer(a, k) == k < Len(a.value_offsets)

Entry(a, k) == a.value_offsets[k + 1]

\* x - y is a value of the offset width w
DiffFits(w, x, y) ==
    \/ w = 64
    \/ /\ ~(y > 0 /\ x < I32_MIN + y)
       /\ ~(y < 0 /\ x > I32_MAX + y)

\* the last call was op(i) with i an index of the array
InRangeCall(op) == last.op = op /\ last.i < arr.data.len

\* offsets that start at zero, never decrease, stay within the values array
\* and cover the whole logical window of the array
ValidOffsets(a) ==
    /\ Len(a.value_offsets) >= a.data.offset + a.data.len + 1
    /\ Entry(a, 0) = 0
    /\ \A k \in 1..Len(a.value_offsets) : a.value_offsets[k] \in 0..a.values.data.len
    /\ \A k \in 1..(Len(a.value_offsets) - 1) : a.value_offsets[k] <= a.value_offsets[k + 1]

\* the elements of the values array at positions [from, to)
Span(values, from, to) == SubSeq(values.data.elems, from + 1, to)

(***************************************************************************)
(* C1 (as stated): for a successfully constructed variable-length list     *)
(* array with logical offset lo and every index i in [0, length),          *)
(* value_offset(i) is offsets[lo+i] and value_length(i) is                 *)
(* offsets[lo+i+1] - offsets[lo+i], offsets[k] being entry k of the offset *)
(* buffer (nothing is said of an entry the buffer does not hold).  Fails:  *)
(* construction accepts offsets whose difference does not fit the offset   *)
(* width, and the subtraction then overflows.                              *)
(***************************************************************************)
C1_SpanOfEveryIndex ==
    LET k == arr.data.offset + last.i
    IN  /\ (IsList(arr) /\ InRangeCall("value_offset") /\ InBuffer(arr, k)) =>
              /\ last.out = "ok"
              /\ last.val = Entry(arr, k)
        /\ (IsList(arr) /\ InRangeCall("value_length") /\ InBuffer(arr, k + 1)) =>
              /\ DiffFits(arr.width, Entry(arr, k + 1), Entry(arr, k))
              /\ last.out = "ok"
              /\ last.val = Entry(arr, k + 1) - Entry(arr, k)

(***************************************************************************)
(* C1 (amended): for every index i in [0, length), value_offset(i) is      *)
(* offsets[lo+i], and when the difference offsets[lo+i+1] - offsets[lo+i]  *)
(* fits the offset width (as it does for non-decreasing offsets that start *)
(* at zero), value_length(i) is that difference; offsets[k] is entry k of  *)
(* the offset buffer.                                                      *)
(***************************************************************************)
C1_SpanOfHeldEntries ==
    LET k == arr.data.offset + last.i
    IN  /\ (IsList(arr) /\ InRangeCall("value_offset") /\ InBuffer(arr, k)) =>
              /\ last.out = "ok"
              /\ last.val = Entry(arr, k)
        /\ (/\ IsList(arr) /\ InRangeCall("value_length") /\ InBuffer(arr, k + 1)
            /\ DiffFits(arr.width, Entry(arr, k + 1), Entry(arr, k))) =>
              /\ last.out = "ok"
              /\ last.val = Entry(arr, k + 1) - Entry(arr, k)

\* value_length read on an array with a logical offset, a non-empty element
C1_Witness ==
    /\ IsList(arr) /\ InRangeCall("value_length")
    /\ arr.data.offset > 0
    /\ InBuffer(arr, arr.data.offset + last.i + 1)
    /\ last.out = "ok" /\ last.val > 0

(***************************************************************************)
(* C2: round trip.  For valid offsets (non-decreasing, starting at zero,   *)
(* within the values length) every index i in [0, length) reads back its   *)
(* span: value_offset(i) and value_length(i) are the span's start and      *)
(* size, and value(i) is the sub-sequence of the values array at           *)
(* [value_offset(i), value_offset(i) + value_length(i)).                   *)
(***************************************************************************)
C2_RoundTrip ==
    (IsList(arr) /\ ValidOffsets(arr) /\ last.op # "none" /\ last.i < arr.data.len) =>
        LET from == Entry(arr, arr.data.offset + last.i)
            to == Entry(arr, arr.data.offset + last.i + 1)
        IN  /\ last.out = "ok"
            /\ last.op = "value_offset" => last.val = from
            /\ last.op = "value_length" => last.val = to - from
            /\ last.op = "value" => /\ last.val = from
                                    /\ Len(last.elems) = to - from
                                    /\ last.elems = Span(arr.values, from, to)

\* value(i) read back a non-empty element that does not start the values
C2_Witness ==
    /\ IsList(arr) /\ ValidOffsets(arr) /\ InRangeCall("value")
    /\ last.out = "ok" /\ last.val > 0 /\ Len(last.elems) > 0

(***************************************************************************)
(* C3: view semantics.  A slice (start, len) of a list array, of either    *)
(* kind, has length len and logical offset A.offset + start, and its       *)
(* element i reads as element start + i of A: same value_offset, same      *)
(* value_length, same value and same validity, whatever lies in memory     *)
(* behind the offset buffer.                                               *)
(***************************************************************************)
SameValue(v1, v2) == v1.out = v2.out /\ v1.val = v2.val /\ v1.elems = v2.elems

C3_SameListElement(i, j) ==
    \A junk1 \in JunkAt(src, src.data.offset + j),
       junk2 \in JunkAt(src, src.data.offset + j + 1) : \A checked \in BOOLEAN :
        /\ value_offset(arr, i, junk1) = value_offset(src, j, junk1)
        /\ value_length(arr, i, junk1, junk2) = value_length(src, j, junk1, junk2)
        /\ SameValue(value(arr, i, junk1, junk2, checked),
                     value(src, j, junk1, junk2, checked))

C3_SameFixedElement(i, j) ==
    \A checked \in BOOLEAN :
        /\ fixed_value_offset(arr, i) = fixed_value_offset(src, j)
        /\ fixed_value_length(arr) = fixed_value_length(src)
        /\ SameValue(fixed_value(arr, i, checked), fixed_value(src, j, checked))

C3_ViewSemantics ==
    (src # NoArray /\ arr # NoArray) =>
        /\ arr.kind = src.kind
        /\ arr.data.len = window.length
        /\ arr.data.offset = src.data.offset + window.start
        /\ \A i \in 0..(window.length - 1) :
             /\ is_valid(arr, i) = is_valid(src, window.start + i)
             /\ IsList(arr) => C3_SameListElement(i, window.start + i)
             /\ IsFixed(arr) => C3_SameFixedElement(i, window.start + i)

\* value(i) read on a slice that starts inside its source
C3_Witness ==
    /\ src # NoArray /\ IsList(arr)
    /\ window.start > 0
    /\ InRangeCall("value")
    /\ last.out = "ok" /\ Len(last.elems) > 0

(***************************************************************************)
(* Notions of the construction properties.                                 *)
(***************************************************************************)
Constructed(ctor) == outcome.ctor = ctor /\ outcome.result # "none"

\* the snapshot's first buffer holds an entry 0, and it is not zero
FirstOffsetNonZero(d) ==
    /\ Len(d.buffers) >= 1
    /\ Len(d.buffers[1].ints) >= 1
    /\ d.buffers[1].ints[1] # 0

\* one buffer, aligned for the offset width, and one child array
ListShaped(d) ==
    /\ Len(d.buffers) = 1
    /\ d.buffers[1].aligned
    /\ Len(d.child_data) = 1

\* no buffer and one child array
FixedShaped(d) == Len(d.buffers) = 0 /\ Len(d.child_data) = 1

\* a fixed-size list type with a stride > 0 that does not divide the length
\* of the values array (the first child)
StrideDoesNotDivide(d) ==
    /\ d.data_type.tag = "FixedSizeList"
    /\ d.data_type.size > 0
    /\ Len(d.child_data) >= 1
    /\ d.child_data[1].len % d.data_type.size # 0

(***************************************************************************)
(* C4 (as stated): a snapshot whose offset buffer has a non-zero entry at  *)
(* absolute index 0 always fails with OffsetConventionViolation, whatever  *)
(* the rest of the snapshot.  Fails: the buffer count, the child count and *)
(* the alignment are checked first.                                        *)
(***************************************************************************)
C4_NonZeroFirstAlwaysOffsetViolation ==
    (Constructed("GenericListArray") /\ FirstOffsetNonZero(data)) =>
        outcome.result = "OffsetConventionViolation"

(***************************************************************************)
(* C4 (amended): a snapshot with exactly one buffer, aligned for the       *)
(* offset width, exactly one child array and a non-zero entry at absolute  *)
(* index 0 of the buffer always fails with OffsetConventionViolation,      *)
(* independent of its length, logical offset and remaining offsets.        *)
(***************************************************************************)
C4_NonZeroFirstOffsetViolation ==
    (Constructed("GenericListArray") /\ ListShaped(data) /\ FirstOffsetNonZero(data)) =>
        /\ outcome.result = "OffsetConventionViolation"
        /\ arr = NoArray

\* rejected although the entry at the logical offset is zero
C4_Witness ==
    /\ Constructed("GenericListArray") /\ ListShaped(data) /\ FirstOffsetNonZero(data)
    /\ data.offset > 0
    /\ Len(data.buffers[1].ints) > data.offset
    /\ data.buffers[1].ints[data.offset + 1] = 0
    /\ outcome.result = "OffsetConventionViolation"

(***************************************************************************)
(* C5: constructing a variable-length list array fails with ShapeMismatch  *)
(* whenever the number of raw buffers is not 1, and whenever the number of *)
(* child arrays is not 1; no array is produced in either case.             *)
(***************************************************************************)
C5_ListShapeMismatch ==
    (/\ Constructed("GenericListArray")
     /\ (Len(data.buffers) # 1 \/ Len(data.child_data) # 1)) =>
        /\ outcome.result = "ShapeMismatch"
        /\ arr = NoArray

\* two buffers, one child, a first offset of zero: still a ShapeMismatch
C5_Witness ==
    /\ Constructed("GenericListArray")
    /\ Len(data.buffers) = 2 /\ Len(data.child_data) = 1
    /\ data.buffers[1].aligned
    /\ data.buffers[1].ints = <<0>>
    /\ outcome.result = "ShapeMismatch"

(***************************************************************************)
(* C6: construction does not check that offsets are non-decreasing or      *)
(* within the values array.  Every snapshot with exactly one aligned       *)
(* offset buffer, exactly one child array and an entry 0 equal to zero     *)
(* constructs, whatever the other entries and the logical offset.          *)
(***************************************************************************)
C6_OffsetsNotChecked ==
    (/\ Constructed("GenericListArray") /\ ListShaped(data)
     /\ Len(data.buffers[1].ints) >= 1
     /\ data.buffers[1].ints[1] = 0) =>
        /\ outcome.result = "Ok"
        /\ IsList(arr)
        /\ arr.data = data
        /\ arr.value_offsets = data.buffers[1].ints

\* constructed with a logical offset k > 0, offsets[k] non-zero, and offsets
\* that decrease and leave the values array
C6_Witness ==
    /\ Constructed("GenericListArray") /\ outcome.result = "Ok"
    /\ src = NoArray
    /\ data.offset > 0
    /\ Len(data.buffers[1].ints) = 3
    /\ data.buffers[1].ints[data.offset + 1] > data.child_data[1].len
    /\ data.buffers[1].ints[3] < data.buffers[1].ints[2]

(***************************************************************************)
(* C7 (as stated): a fixed-size list whose declared stride is > 0 and      *)
(* whose values length is not divisible by the stride always fails with    *)
(* StrideMismatch.  Fails: the buffer count and the child count are        *)
(* checked first.                                                          *)
(***************************************************************************)
C7_IndivisibleAlwaysStrideMismatch ==
    (Constructed("FixedSizeListArray") /\ StrideDoesNotDivide(data)) =>
        outcome.result = "StrideMismatch"

(***************************************************************************)
(* C7 (amended): a snapshot with no raw buffer, exactly one child array    *)
(* and a fixed-size list type whose stride is > 0 and does not divide the  *)
(* values array length always fails with StrideMismatch.                   *)
(***************************************************************************)
C7_IndivisibleStrideMismatch ==
    (Constructed("FixedSizeListArray") /\ FixedShaped(data) /\ StrideDoesNotDivide(data)) =>
        /\ outcome.result = "StrideMismatch"
        /\ arr = NoArray

\* rejected although the stride divides the list's own length
C7_Witness ==
    /\ Constructed("FixedSizeListArray") /\ FixedShaped(data) /\ StrideDoesNotDivide(data)
    /\ data.len % data.data_type.size = 0
    /\ outcome.result = "StrideMismatch"

(***************************************************************************)
(* C8: constructing a fixed-size list array fails with ShapeMismatch       *)
(* whenever the snapshot has any raw buffer, and whenever its number of    *)
(* child arrays is not exactly 1.                                          *)
(***************************************************************************)
C8_FixedShapeMismatch ==
    (/\ Constructed("FixedSizeListArray")
     /\ (Len(data.buffers) # 0 \/ Len(data.child_data) # 1)) =>
        /\ outcome.result = "ShapeMismatch"
        /\ arr = NoArray

\* a stray buffer on an otherwise sound fixed-size list snapshot
C8_Witness ==
    /\ Constructed("FixedSizeListArray")
    /\ Len(data.buffers) = 1 /\ Len(data.child_data) = 1
    /\ data.data_type.tag = "FixedSizeList"
    /\ ~StrideDoesNotDivide(data)
    /\ outcome.result = "ShapeMismatch"

(***************************************************************************)
(* C9 (as stated): a snapshot whose type is not a fixed-size list fails    *)
(* with TypeTagMismatch, for every other type tag; when the type is a      *)
(* fixed-size list, the array's stride is the declared stride.  Fails:     *)
(* the buffer count and the child count are checked before the type.       *)
(***************************************************************************)
C9_OtherTypeAlwaysTypeTagMismatch ==
    /\ (Constructed("FixedSizeListArray") /\ data.data_type.tag # "FixedSizeList") =>
            outcome.result = "TypeTagMismatch"
    /\ IsFixed(arr) => arr.length = arr.data.data_type.size

(***************************************************************************)
(* C9 (amended): a snapshot with no raw buffer and exactly one child array *)
(* whose type is not a fixed-size list fails with TypeTagMismatch, for     *)
(* every other type tag; when the type is a fixed-size list, the array's   *)
(* stride is the declared stride.                                          *)
(***************************************************************************)
C9_OtherTypeTypeTagMismatch ==
    /\ (/\ Constructed("FixedSizeListArray") /\ FixedShaped(data)
        /\ data.data_type.tag # "FixedSizeList") =>
            /\ outcome.result = "TypeTagMismatch"
            /\ arr = NoArray
    /\ IsFixed(arr) =>
            /\ arr.data.data_type.tag = "FixedSizeList"
            /\ arr.length = arr.data.data_type.size

\* a well-shaped snapshot of a variable-length list type, rejected
C9_Witness ==
    /\ Constructed("FixedSizeListArray") /\ FixedShaped(data)
    /\ data.data_type.tag = "List"
    /\ outcome.result = "TypeTagMismatch"

(***************************************************************************)
(* C10 (as stated): for a fixed-size list array with stride s >= 0 and     *)
(* logical offset lo, value_length() is s whatever the index or slicing,   *)
(* and for every i in [0, length) value(i) is the sub-sequence of the      *)
(* values array at [(lo+i)*s, (lo+i+1)*s).  Fails: construction lets the   *)
(* logical window end behind the values array, where there is no such      *)
(* sub-sequence.                                                           *)
(***************************************************************************)
\* the span of element i lies within the values array
FixedSpanInValues(a, i) ==
    /\ a.length <= a.values.data.len
    /\ (a.data.offset + i + 1) * a.length <= a.values.data.len

C10_FixedSpanOfEveryIndex ==
    /\ (IsFixed(arr) /\ last.op = "value_length") =>
            last.out = "ok" /\ last.val = arr.data.data_type.size
    /\ (IsFixed(arr) /\ arr.length >= 0 /\ InRangeCall("value")) =>
            /\ FixedSpanInValues(arr, last.i)
            /\ last.out = "ok"
            /\ last.elems = Span(arr.values, (arr.data.offset + last.i) * arr.length,
                                 (arr.data.offset + last.i + 1) * arr.length)

(***************************************************************************)
(* C10 (amended): for a fixed-size list array with stride s >= 0,          *)
(* value_length() is s whatever the index or slicing, and for every i in   *)
(* [0, length) whose span [(lo+i)*s, (lo+i+1)*s) lies within the values    *)
(* array ((lo+i+1)*s <= values length), value(i) is the sub-sequence of    *)
(* the values array at that span.                                          *)
(***************************************************************************)
C10_FixedSpanInValues ==
    /\ (IsFixed(arr) /\ last.op = "value_length") =>
            last.out = "ok" /\ last.val = arr.data.data_type.size
    /\ (/\ IsFixed(arr) /\ arr.length >= 0 /\ InRangeCall("value")
        /\ FixedSpanInValues(arr, last.i)) =>
            /\ last.out = "ok"
            /\ last.val = (arr.data.offset + last.i) * arr.length
            /\ last.elems = Span(arr.values, (arr.data.offset + last.i) * arr.length,
                                 (arr.data.offset + last.i + 1) * arr.length)

\* value(i) read on a slice with stride 2: a full element behind the start
C10_Witness ==
    /\ IsFixed(arr) /\ src # NoArray /\ InRangeCall("value")
    /\ arr.data.offset > 0 /\ arr.length = 2
    /\ last.out = "ok" /\ Len(last.elems) = 2

(***************************************************************************)
(* C11 (as stated): for a fixed-size list array, value_offset(i) is the    *)
(* exact integer product (lo + i) * stride for every index i and every     *)
(* declared stride, also when the product exceeds the signed 32-bit range. *)
(* Fails: the product is an i32 multiplication, which overflows.           *)
(***************************************************************************)
\* n * s, for n >= 0, is a value of i32
ProductFits(n, s) ==
    \/ n = 0
    \/ s >= 0 /\ s <= I32_MAX \div n
    \/ s < 0 /\ (-(s + 1)) <= (I32_MAX - (n - 1)) \div n

C11_ExactProductAlways ==
    (IsFixed(arr) /\ last.op = "value_offset") =>
        /\ ProductFits(arr.data.offset + last.i, arr.length)
        /\ last.out = "ok"
        /\ last.val = (arr.data.offset + last.i) * arr.length

(***************************************************************************)
(* C11 (amended): for a fixed-size list array, value_offset(i) is the      *)
(* product (lo + i) * stride for every index i and every declared stride   *)
(* for which that product is representable as a signed 32-bit integer.     *)
(***************************************************************************)
C11_ExactProductWhenRepresentable ==
    (/\ IsFixed(arr) /\ last.op = "value_offset"
     /\ ProductFits(arr.data.offset + last.i, arr.length)) =>
        /\ last.out = "ok"
        /\ last.val = (arr.data.offset + last.i) * arr.length

\* value_offset(1) at logical offset 1 with stride 2
C11_Witness ==
    /\ IsFixed(arr) /\ last.op = "value_offset"
    /\ arr.data.offset = 1 /\ last.i = 1 /\ arr.length = 2
    /\ last.out = "ok" /\ last.val = 4

(***************************************************************************)
(* C12: memory-accounting asymmetry.  For a fixed-size list array          *)
(* get_buffer_memory_size and get_array_memory_size are the snapshot's own *)
(* accounting plus the values array's accounting, so they include the      *)
(* values array's bytes; for a variable-length list array                  *)
(* get_buffer_memory_size is the snapshot's accounting only (the offsets   *)
(* buffer) and get_array_memory_size adds only the view's own footprint,   *)
(* so the values array's bytes are excluded.                               *)
(***************************************************************************)
\* the bytes of the array's offsets buffer and of its values
OffsetsBytes(a) == (a.width \div 8) * Len(a.value_offsets)
ValuesBytes(a) == 4 * a.values.data.len

C12_MemoryAsymmetry ==
    /\ (IsList(arr) /\ last.op = "get_buffer_memory_size") =>
            /\ last.val = data_get_buffer_memory_size(arr.data, arr.width)
            /\ last.val = OffsetsBytes(arr)
    /\ (IsList(arr) /\ last.op = "get_array_memory_size") =>
            /\ last.val = data_get_array_memory_size(arr.data, arr.width) + size_of_val(arr)
            /\ last.val = OffsetsBytes(arr) + size_of_ArrayData + size_of_val(arr)
    /\ (IsFixed(arr) /\ last.op = "get_buffer_memory_size") =>
            /\ last.val = data_get_buffer_memory_size(arr.data, arr.width)
                            + values_get_buffer_memory_size(arr.values)
            /\ last.val = ValuesBytes(arr)
    /\ (IsFixed(arr) /\ last.op = "get_array_memory_size") =>
            /\ last.val = data_get_array_memory_size(arr.data, arr.width)
                            + values_get_array_memory_size(arr.values) + size_of_val(arr)
            /\ last.val >= ValuesBytes(arr) + size_of_val(arr)

\* a variable list over a non-empty values array reporting its offsets only
C12_Witness ==
    /\ IsList(arr) /\ last.op = "get_buffer_memory_size"
    /\ ValuesBytes(arr) > 0
    /\ Len(arr.value_offsets) = 3
    /\ last.val = (arr.width \div 8) * 3

(***************************************************************************)
(* Notions of the factory properties.                                      *)
(***************************************************************************)
Factories == {"build_empty_list_array", "build_empty_fixed_size_list_array"}

\* a factory was called and its result has not been sliced since
FactoryCalled == outcome.ctor \in Factories

\* the element type of a list array of either kind
ElementType(a) == IF IsList(a) THEN list_value_type(a) ELSE fixed_value_type(a)

\* the supported set: every integer width, both floating-point widths,
\* boolean, the dates, Time32 in seconds and milliseconds, Time64 in
\* microseconds and nanoseconds, durations and timestamps of every unit,
\* UTF-8 text and binary
SupportedItemTypes ==
    {DataType(tag) : tag \in {"UInt8", "UInt16", "UInt32", "UInt64", "Int8", "Int16",
                              "Int32", "Int64", "Float32", "Float64", "Boolean",
                              "Utf8", "Binary"}}
    \cup {DataTypeUnit(tag, u) : tag \in {"Date32", "Date64"}, u \in DateUnits}
    \cup {DataTypeUnit("Time32", u) : u \in {"Second", "Millisecond"}}
    \cup {DataTypeUnit("Time64", u) : u \in {"Microsecond", "Nanosecond"}}
    \cup {DataTypeUnit("Duration", u) : u \in TimeUnits}
    \cup {Timestamp(u, tz) : u \in TimeUnits, tz \in Timezones}

(***************************************************************************)
(* C13: for every element type an empty-list factory accepts               *)
(* (build_empty_list_array of either offset width,                         *)
(* build_empty_fixed_size_list_array) the call returns a list array of     *)
(* length 0 whose element type (value_type) is the requested descriptor,   *)
(* its parameters (date unit, timestamp timezone) included; the fixed-size *)
(* variant has stride 0.  Fails: the dispatch drops the date unit and the  *)
(* timezone, and the array has the leaf type's own.                        *)
(***************************************************************************)
C13_ElementTypeIsRequested ==
    (FactoryCalled /\ outcome.result = "Ok") =>
        /\ arr # NoArray
        /\ arr.data.len = 0
        /\ ElementType(arr) = factory.item_type
        /\ outcome.ctor = "build_empty_fixed_size_list_array" =>
                IsFixed(arr) /\ fixed_value_length(arr) = 0

(***************************************************************************)
(* C14: for every element type outside the supported set (nested list and  *)
(* struct types, Time32 in microseconds, Time64 in seconds, intervals, ...)*)
(* both factories return the failure NotYetImplemented                     *)
(* (UnsupportedElementType) as a value, no array, and the failure's        *)
(* message carries the description of the rejected type.                   *)
(***************************************************************************)
C14_UnsupportedIsErr ==
    (FactoryCalled /\ factory.item_type \notin SupportedItemTypes) =>
        /\ outcome.result = "NotYetImplemented"
        /\ arr = NoArray
        /\ \E k \in DOMAIN factory.message.args :
                factory.message.args[k] = fmt_debug(factory.item_type)

\* the variable-length factory asked for lists of Time32 in microseconds
C14_Witness ==
    /\ outcome.ctor = "build_empty_list_array"
    /\ factory.item_type = DataTypeUnit("Time32", "Microsecond")
    /\ outcome.result = "NotYetImplemented"

(***************************************************************************)
(* C15: for every list array of either kind, values() is the complete      *)
(* child values array of the snapshot, equal to the child array-data it    *)
(* was constructed from, and value_type() is that child's element type;    *)
(* the same holds with a non-zero logical offset and after slicing         *)
(* (values() is never narrowed to the slice's window).                     *)
(***************************************************************************)
C15_ValuesUnchanged ==
    /\ (arr # NoArray /\ last.op = "values") =>
            /\ last.ref.data = arr.data.child_data[1]
            /\ Len(last.ref.data.elems) = arr.data.child_data[1].len
            /\ last.ref.data.offset = 0
            /\ src # NoArray => last.ref = src.values
    /\ (arr # NoArray /\ last.op = "value_type") =>
            /\ last.ref = arr.data.child_data[1].data_type
            /\ src # NoArray => last.ref = src.values.data.data_type

\* values() of a slice that starts inside its source: still every value
C15_Witness ==
    /\ IsList(arr) /\ src # NoArray /\ window.start > 0
    /\ arr.data.len < src.data.len
    /\ last.op = "values"
    /\ Len(last.ref.data.elems) = MaxValues

(***************************************************************************)
(* C16 (as stated): value_offset(i), value_length(i) and value(i) of both  *)
(* list kinds have no error path: for any index and any successfully       *)
(* constructed array (its offsets may decrease or exceed the values        *)
(* length) they never end in a failure or panic.  Fails: value(i) unwraps  *)
(* to_usize() of the offset and of the length, which is None for a         *)
(* negative one, and the i32 arithmetic panics on overflow in a build with *)
(* overflow checks.  (Nothing is said of a read behind the offset buffer.) *)
(***************************************************************************)
AccessorCall == last.op \in {"value_offset", "value_length", "value"}

\* the offset entries the call reads are entries the buffer holds
ReadsHeldEntries ==
    IsList(arr) => InBuffer(arr, arr.data.offset + last.i + 1)

C16_AccessorsNeverPanic ==
    (arr # NoArray /\ AccessorCall /\ ReadsHeldEntries) => last.out # "panic"

(***************************************************************************)
(* C16 (amended): on the offset entries the buffer holds, and for any      *)
(* index, the accessors do not panic: value_offset(i) of a variable list   *)
(* and value_length() of a fixed-size list never; value_length(i) of a     *)
(* variable list when the difference of the two offsets fits the offset    *)
(* width; value_offset(i) of a fixed-size list when the product fits i32;  *)
(* value(i) when the offset and length are not negative and the span lies  *)
(* within the values array.  Offsets beyond the values length make neither *)
(* value_offset nor value_length fail.                                     *)
(***************************************************************************)
C16_PanicFreeCases ==
    LET k == arr.data.offset + last.i
    IN  /\ (IsList(arr) /\ last.op = "value_offset" /\ InBuffer(arr, k)) =>
                last.out = "ok"
        /\ (/\ IsList(arr) /\ last.op = "value_length" /\ InBuffer(arr, k + 1)
            /\ DiffFits(arr.width, Entry(arr, k + 1), Entry(arr, k))) =>
                last.out = "ok"
        /\ (/\ IsList(arr) /\ last.op = "value" /\ InBuffer(arr, k + 1)
            /\ Entry(arr, k) >= 0
            /\ Entry(arr, k + 1) >= Entry(arr, k)
            /\ Entry(arr, k + 1) <= arr.values.data.len) =>
                last.out = "ok"
        /\ (IsFixed(arr) /\ last.op = "value_length") =>
                last.out = "ok"
        /\ (/\ IsFixed(arr) /\ last.op = "value_offset"
            /\ ProductFits(k, arr.length)) =>
                last.out = "ok"
        /\ (/\ IsFixed(arr) /\ last.op = "value" /\ arr.length >= 0
            /\ FixedSpanInValues(arr, last.i)) =>
                last.out = "ok"

\* value_length read between offsets that lie beyond the values array
C16_Witness ==
    /\ IsList(arr) /\ last.op = "value_length"
    /\ InBuffer(arr, arr.data.offset + last.i + 1)
    /\ Entry(arr, arr.data.offset + last.i) > arr.values.data.len
    /\ last.out = "ok"

(***************************************************************************)
(* C17: immutability.  After construction no operation on a list array     *)
(* (values, value_type, value_offset, value_length, value, memory          *)
(* accounting, slice) changes its length, logical offset, validity, offset *)
(* buffer, stride or values array.  Slicing leaves the source as it was    *)
(* and gives a new view over the same buffers, children and values, and    *)
(* the source of a slice never changes afterwards.                         *)
(***************************************************************************)
\* view b is over the buffers, validity, children and values of array a
SharesBuffers(a, b) ==
    /\ b.kind = a.kind
    /\ b.data.buffers = a.data.buffers
    /\ b.data.nulls = a.data.nulls
    /\ b.data.child_data = a.data.child_data
    /\ b.value_offsets = a.value_offsets
    /\ b.values = a.values
    /\ b.length = a.length

C17_Immutable ==
    [][/\ arr # NoArray =>
            \/ arr' = arr
            \/ /\ src' = arr
               /\ arr' # NoArray => SharesBuffers(arr, arr')
       /\ src # NoArray => src' = src]_vars

\* an accessor read on a slice of a fixed-size list, shorter than its source
C17_Witness ==
    /\ IsFixed(arr) /\ src # NoArray
    /\ window.length < src.data.len
    /\ last.op = "value_offset" /\ last.out = "ok"

(***************************************************************************)
(* Notions of the width equivalence.                                       *)
(***************************************************************************)
OtherWidth(w) == IF w = 32 THEN 64 ELSE 32

\* the same snapshot for the other offset width
TwinData(d, w) == [d EXCEPT !.data_type = IF d.data_type = ListType(w)
                                          THEN ListType(OtherWidth(w)) ELSE @]

\* the array the other variant builds from the same snapshot
Twin(a) == GenericListArray_new(OtherWidth(a.width), TwinData(a.data, a.width))

\* every entry of the offset buffer is an i32 value
OffsetsIn32(a) ==
    \A k \in 1..Len(a.value_offsets) :
        a.value_offsets[k] >= I32_MIN /\ a.value_offsets[k] <= I32_MAX

\* construction, value_offset and slicing do not depend on the width
C18_SameButLength ==
    /\ (Constructed("GenericListArray") /\ src = NoArray) =>
            \A junk \in FirstJunk(outcome.width, data) :
                GenericListArray_check(outcome.width, data, junk)
                    = GenericListArray_check(OtherWidth(outcome.width),
                                             TwinData(data, outcome.width), junk)
    /\ (IsList(arr) /\ OffsetsIn32(arr) /\ last.op = "value_offset" /\ ReadsHeldEntries) =>
            last.val = value_offset(Twin(arr), last.i, 0)
    /\ (IsList(arr) /\ IsList(src) /\ OffsetsIn32(arr)) =>
            Twin(arr) = GenericListArray_new(OtherWidth(arr.width),
                            slice_data(Twin(src).data, window.start, window.length))
    /\ IsList(arr) => prefix(arr.width) # prefix(OtherWidth(arr.width))

\* value_length(i) and value(i) are those of the other width
C18_SameLengthAndValue ==
    /\ last.op = "value_length" =>
            /\ last.out = "ok"
            /\ NoOverflow(last.val) = value_length(Twin(arr), last.i, 0, 0)
    /\ last.op = "value" =>
            \A checked \in BOOLEAN :
                SameValue(last, value(Twin(arr), last.i, 0, 0, checked))

(***************************************************************************)
(* C18 (as stated): ListArray and LargeListArray are one component: for    *)
(* any snapshot whose offsets are representable in 32 bits both give the   *)
(* same construction outcome and, on success, equal value_offset(i),       *)
(* value_length(i), value(i) and slice results for every index (on the     *)
(* entries the offset buffer holds); they differ only in the display tag.  *)
(* Fails: the difference of two 32-bit offsets may not fit 32 bits, where  *)
(* the 32-bit value_length overflows and the 64-bit one does not.          *)
(***************************************************************************)
C18_WidthsAlwaysAgree ==
    LET k == arr.data.offset + last.i
    IN  /\ C18_SameButLength
        /\ (/\ IsList(arr) /\ OffsetsIn32(arr)
            /\ last.op \in {"value_length", "value"} /\ ReadsHeldEntries) =>
                /\ DiffFits(32, Entry(arr, k + 1), Entry(arr, k))
                /\ C18_SameLengthAndValue

(***************************************************************************)
(* C18 (amended): for any snapshot whose offsets are representable in 32   *)
(* bits both variants give the same construction outcome and, on success,  *)
(* equal value_offset(i) and slice results, and equal value_length(i) and  *)
(* value(i) wherever the difference offsets[lo+i+1] - offsets[lo+i] is     *)
(* representable in 32 bits too (as it is for non-negative offsets); they  *)
(* differ in the display tag.                                              *)
(***************************************************************************)
C18_WidthsAgree ==
    LET k == arr.data.offset + last.i
    IN  /\ C18_SameButLength
        /\ (/\ IsList(arr) /\ OffsetsIn32(arr)
            /\ last.op \in {"value_length", "value"} /\ ReadsHeldEntries
            /\ DiffFits(32, Entry(arr, k + 1), Entry(arr, k))) =>
                C18_SameLengthAndValue

\* a LargeListArray whose value(i) is a non-empty element behind the start
C18_Witness ==
    /\ IsList(arr) /\ arr.width = 64
    /\ last.op = "value" /\ ReadsHeldEntries
    /\ last.out = "ok" /\ last.val > 0 /\ Len(last.elems) > 0

(***************************************************************************)
(* C19: the construction checks run in a fixed order and the first one     *)
(* violated gives the failure kind.  Variable-length: buffer count, child  *)
(* count, alignment of the offset buffer, entry 0 is zero.  Fixed-size:    *)
(* buffer count, child count, type tag, stride divisibility.  A snapshot   *)
(* that violates several conditions fails with the earliest, and a later   *)
(* failure kind shows that every earlier check passed.                     *)
(***************************************************************************)
ListCountsOk(d) == Len(d.buffers) = 1 /\ Len(d.child_data) = 1

C19_ListOrder ==
    Constructed("GenericListArray") =>
        /\ ~ListCountsOk(data) => outcome.result = "ShapeMismatch"
        /\ (ListCountsOk(data) /\ ~data.buffers[1].aligned) =>
                outcome.result = "Misaligned"
        /\ (ListShaped(data) /\ FirstOffsetNonZero(data)) =>
                outcome.result = "OffsetConventionViolation"
        /\ outcome.result = "Misaligned" => ListCountsOk(data)
        /\ outcome.result \in {"OffsetConventionViolation", "Ok"} => ListShaped(data)

C19_FixedOrder ==
    Constructed("FixedSizeListArray") =>
        /\ ~FixedShaped(data) => outcome.result = "ShapeMismatch"
        /\ (FixedShaped(data) /\ data.data_type.tag # "FixedSizeList") =>
                outcome.result = "TypeTagMismatch"
        /\ (FixedShaped(data) /\ StrideDoesNotDivide(data)) =>
                outcome.result = "StrideMismatch"
        /\ outcome.result = "TypeTagMismatch" => FixedShaped(data)
        /\ outcome.result \in {"StrideMismatch", "Ok"} =>
                FixedShaped(data) /\ data.data_type.tag = "FixedSizeList"

C19_CheckOrder == C19_ListOrder /\ C19_FixedOrder

\* a misaligned offset buffer whose entry 0 is not zero: the alignment wins
C19_Witness ==
    /\ Constructed("GenericListArray") /\ ListCountsOk(data)
    /\ ~data.buffers[1].aligned
    /\ FirstOffsetNonZero(data)
    /\ outcome.result = "Misaligned"

(***************************************************************************)
(* C20 (as stated): after successful construction of a fixed-size list     *)
(* array with stride s > 0, logical offset lo and length n, every index i  *)
(* in [0, n) has its span [(lo+i)*s, (lo+i+1)*s) inside the values array,  *)
(* i.e. (lo+n)*s <= values length: construction rejects a snapshot whose   *)
(* logical window extends past the values array.  Fails: construction only *)
(* checks that the stride divides the values length.                       *)
(***************************************************************************)
C20_WindowInsideValues ==
    (IsFixed(arr) /\ arr.length > 0 /\ arr.data.len > 0) =>
        /\ arr.length <= arr.values.data.len
        /\ (arr.data.offset + arr.data.len) * arr.length <= arr.values.data.len

(***************************************************************************)
(* C20 (amended): after successful construction of a fixed-size list array *)
(* with stride s > 0 the values length is a multiple of s, so the span of  *)
(* an element that starts inside the values array ends inside it; the      *)
(* logical window itself is not checked and may extend past the values.    *)
(***************************************************************************)
C20_SpansDoNotStraddle ==
    (IsFixed(arr) /\ arr.length > 0) =>
        /\ arr.values.data.len % arr.length = 0
        /\ arr.length > arr.values.data.len => arr.values.data.len = 0
        /\ \A i \in 0..(arr.data.len - 1) :
              (/\ arr.length <= arr.values.data.len
               /\ (arr.data.offset + i) * arr.length < arr.values.data.len) =>
                    (arr.data.offset + i + 1) * arr.length <= arr.values.data.len

\* constructed with a window of 2 elements at offset 1, stride 2, over 4 values
C20_Witness ==
    /\ IsFixed(arr) /\ src = NoArray
    /\ arr.length = 2 /\ arr.values.data.len = 4
    /\ arr.data.offset = 1 /\ arr.data.len = 2

(***************************************************************************)
(* C21: the variable-length factory, for both offset widths, and the       *)
(* fixed-size factory accept exactly the same element types: for every     *)
(* element type t, build_empty_list_array::<i32>(t),                       *)
(* build_empty_list_array::<i64>(t) and                                    *)
(* build_empty_fixed_size_list_array(t) either all succeed or all return   *)
(* NotYetImplemented (UnsupportedElementType).                             *)
(***************************************************************************)
C21_SameAcceptedTypes ==
    FactoryCalled =>
        /\ outcome.result \in {"Ok", "NotYetImplemented"}
        /\ \A w \in OffsetSizes :
              build_empty_list_array(w, factory.item_type).result = outcome.result
        /\ build_empty_fixed_size_list_array(factory.item_type).result = outcome.result

\* the fixed-size factory accepting binary elements, as the other one does
C21_Witness ==
    /\ outcome.ctor = "build_empty_fixed_size_list_array"
    /\ factory.item_type = DataType("Binary")
    /\ outcome.result = "Ok"
    /\ IsFixed(arr)
====
